---- MODULE Spec2Model ----
(***************************************************************************)
(* Model of the user-management service: the credential hasher and token   *)
(* codec of security.py, the auth resolver (get_current_user,              *)
(* get_current_admin) and the CRUD handlers of routers/users.py over the   *)
(* users table of models.py.                                               *)
(*                                                                         *)
(* Every HTTP request is one atomic step: dependency resolution, the       *)
(* handler body and its commit or rollback.  Times are in milliseconds.    *)
(***************************************************************************)
EXTENDS Integers, Sequences, FiniteSets, TLC

VARIABLES
    users,    \* the users table: id -> row, DOMAIN users = ids of existing rows
    nextId,   \* next value of the primary-key sequence of users.id
    now,      \* wall clock, milliseconds since the epoch
    issued,   \* tokens signed with SECRET_KEY that clients hold
    codec     \* the last call of the token codec made on its own (SpecToken)

vars == <<users, nextId, now, issued, codec>>

----------------------------------------------------------------------------
(* Bounds of the model *)

MaxId == 2          \* rows are created while the id sequence is <= MaxId
MaxTokens == 2      \* tokens kept by clients
MaxHalfSeconds == 4 \* clock steps of the token codec on its own

Names == {"n1", "n2"}
Emails == {"e1", "e2"}
Passwords == {"p1", "p2"}
Roles == {"user", "admin", "guest"}   \* strings a request may put in `role`
None == "<None>"                      \* an Optional field left out

----------------------------------------------------------------------------
(* security.py : configuration *)

SECRET_KEY == "your-secret-key-change-in-production"
ACCESS_TOKEN_EXPIRE_MINUTES == 60

\* expires_delta: Optional[timedelta] is <<>> for None and <<ms>> for a
\* timedelta of ms milliseconds
NoDelta == <<>>
Delta(ms) == <<ms>>

\* timedelta(minutes = m) in milliseconds
Minutes(m) == m * 60 * 1000

----------------------------------------------------------------------------
(* security.py : credential hasher.  bcrypt is abstracted to a tagged     *)
(* value that verifies against exactly the password it was made from.     *)

hash_password(password) == <<"$2b$", password>>

verify_password(plain_password, hashed_password) ==
    hashed_password = hash_password(plain_password)

----------------------------------------------------------------------------
(* security.py : token codec *)

\* the decoded value of an invalid token
NoPayload == [invalid |-> TRUE]

\* bool(expires_delta): None and timedelta(0) are both falsy
Truthy(expires_delta) ==
    expires_delta # NoDelta /\ expires_delta[1] # 0

\* int(expire.timestamp()): whole epoch seconds of a millisecond instant
ToEpochSeconds(ms) == ms \div 1000

create_access_token(user_id, email, role, expires_delta, t) ==
    LET expire == IF Truthy(expires_delta)
                  THEN t + expires_delta[1]
                  ELSE t + Minutes(ACCESS_TOKEN_EXPIRE_MINUTES)
    IN  [payload |-> [user_id |-> user_id, email |-> email, role |-> role,
                      exp |-> ToEpochSeconds(expire)],
         key |-> SECRET_KEY]

\* jwt.decode: the signature must be made with SECRET_KEY, and the token is
\* expired when exp < the current whole second
Expired(exp, t) == exp < ToEpochSeconds(t)

verify_token(token, t) ==
    IF token.key = SECRET_KEY /\ ~Expired(token.payload.exp, t)
    THEN token.payload
    ELSE NoPayload

----------------------------------------------------------------------------
(* security.py : auth resolver *)

\* An Authorization header is the sequence of its whitespace-separated
\* parts (authorization.split()); <<>> is a missing or empty header.
Lower(s) ==
    CASE s = "Bearer" -> "bearer"
      [] s = "BEARER" -> "bearer"
      [] s = "Token"  -> "token"
      [] OTHER        -> s

NoToken == [payload |-> NoPayload, key |-> "<none>"]

\* the token of a well-formed header, NoToken when the header raises 401
extract_token_from_header(authorization) ==
    IF Len(authorization) = 0 THEN NoToken
    ELSE IF Len(authorization) # 2 \/ Lower(authorization[1]) # "bearer"
         THEN NoToken
         ELSE authorization[2]

\* IsAdmin written as "not a plain user"
IsAdmin_NotUser(user) == user.role # "user"

\* current_user.role == "admin"
IsAdmin(user) == user.role = "admin"

\* AccountUsable without the is_active test
AccountUsable_NoActiveCheck(store, user_id) ==
    user_id \in DOMAIN store

\* the row that answers for the request once the token is decoded
AccountUsable(store, user_id) ==
    user_id \in DOMAIN store /\ store[user_id].is_active

\* [status |-> 200, id |-> the current user's id], or status 401
get_current_user(authorization, store, t) ==
    LET token   == extract_token_from_header(authorization)
        payload == IF token = NoToken THEN NoPayload ELSE verify_token(token, t)
    IN  IF payload = NoPayload THEN [status |-> 401, id |-> 0]
        ELSE IF ~AccountUsable(store, payload.user_id)
             THEN [status |-> 401, id |-> 0]
             ELSE [status |-> 200, id |-> payload.user_id]

\* get_current_admin deciding from the role embedded in the token
get_current_admin_TokenRole(authorization, store, t) ==
    LET current_user == get_current_user(authorization, store, t)
    IN  IF current_user.status # 200 THEN current_user
        ELSE IF extract_token_from_header(authorization).payload.role # "admin"
             THEN [status |-> 403, id |-> current_user.id]
             ELSE current_user

get_current_admin(authorization, store, t) ==
    LET current_user == get_current_user(authorization, store, t)
    IN  IF current_user.status # 200 THEN current_user
        ELSE IF ~IsAdmin(store[current_user.id])
             THEN [status |-> 403, id |-> current_user.id]
             ELSE current_user

----------------------------------------------------------------------------
(* models.py / database.py : persistence *)

\* a new row; is_active takes the column default
User(name, email, hashed_password, role) ==
    [name |-> name, email |-> email, hashed_password |-> hashed_password,
     role |-> role, is_active |-> TRUE]

\* EmailsUnique with the unique index missing
EmailsUnique_NoIndex(store) == TRUE

\* unique = True on users.email
EmailsUnique(store) ==
    \A i, j \in DOMAIN store : store[i].email = store[j].email => i = j

\* db.commit(): the flush raises IntegrityError when the unique index is
\* violated, and the handler's db.rollback() keeps the old table
commit(old, new) ==
    IF EmailsUnique(new) THEN [ok |-> TRUE, users |-> new]
                         ELSE [ok |-> FALSE, users |-> old]

\* the outcome of a handler: status code, table afterwards, the resolved
\* current user (0 when there is none) and the ids of the rows returned
Outcome(status, store, actor, out) ==
    [status |-> status, users |-> store, actor |-> actor, out |-> out]

----------------------------------------------------------------------------
(* routers/users.py : handlers, as functions of the table, the clock and  *)
(* the request                                                            *)

\* the row with this email, 0 when there is none (email is unique)
FindByEmail(store, email) ==
    IF \E i \in DOMAIN store : store[i].email = email
    THEN CHOOSE i \in DOMAIN store : store[i].email = email
    ELSE 0

\* POST /users/login; the outcome's token is NoToken unless the status is 200
login(store, t, login_request) ==
    LET id == FindByEmail(store, login_request.email)
    IN  IF id = 0 \/ ~verify_password(login_request.password,
                                      store[id].hashed_password)
        THEN [status |-> 401, token |-> NoToken, actor |-> 0]
        ELSE IF ~store[id].is_active
             THEN [status |-> 403, token |-> NoToken, actor |-> 0]
             ELSE [status |-> 200, actor |-> id,
                   token |-> create_access_token(id, store[id].email,
                                                 store[id].role, NoDelta, t)]

\* schemas.UserCreate: the validated body keeps name, email and password;
\* any other key of the JSON body, such as role, is dropped
UserCreate(json) ==
    [name |-> json.name, email |-> json.email, password |-> json.password]

\* NewUserRole taking the privileged role
NewUserRole_Admin == "admin"

\* the role every creation stores
NewUserRole == "user"

\* the body of both creation handlers: insert, commit, 201 or 409
InsertUser(store, id, user, actor) ==
    LET db_user == User(user.name, user.email, hash_password(user.password),
                        NewUserRole)
        c == commit(store, store @@ (id :> db_user))
    IN  IF c.ok THEN Outcome(201, c.users, actor, {id})
                ELSE Outcome(409, c.users, actor, {})

\* POST /users
create_user(store, id, json) == InsertUser(store, id, UserCreate(json), 0)

\* GET /users/me
get_my_profile(store, t, authorization) ==
    LET current_user == get_current_user(authorization, store, t)
    IN  IF current_user.status # 200
        THEN Outcome(current_user.status, store, 0, {})
        ELSE Outcome(200, store, current_user.id, {current_user.id})

\* GET /users
read_users(store, t, authorization) ==
    LET admin == get_current_admin(authorization, store, t)
    IN  IF admin.status # 200 THEN Outcome(admin.status, store, admin.id, {})
        ELSE Outcome(200, store, admin.id, DOMAIN store)

\* NotAdminNorSelf with `or` in place of `and`
NotAdminNorSelf_Or(current_user, current_id, user_id) ==
    ~IsAdmin(current_user) \/ current_id # user_id

\* current_user.role != "admin" and current_user.id != user_id
NotAdminNorSelf(current_user, current_id, user_id) ==
    ~IsAdmin(current_user) /\ current_id # user_id

\* read_user with the permission check ahead of the lookup
read_user_PermissionFirst(store, t, authorization, user_id) ==
    LET current_user == get_current_user(authorization, store, t)
    IN  IF current_user.status # 200
        THEN Outcome(current_user.status, store, 0, {})
        ELSE IF NotAdminNorSelf(store[current_user.id], current_user.id, user_id)
        THEN Outcome(403, store, current_user.id, {})
        ELSE IF user_id \notin DOMAIN store
        THEN Outcome(404, store, current_user.id, {})
        ELSE Outcome(200, store, current_user.id, {user_id})

\* GET /users/{user_id}
read_user(store, t, authorization, user_id) ==
    LET current_user == get_current_user(authorization, store, t)
    IN  IF current_user.status # 200
        THEN Outcome(current_user.status, store, 0, {})
        ELSE IF user_id \notin DOMAIN store
        THEN Outcome(404, store, current_user.id, {})
        ELSE IF NotAdminNorSelf(store[current_user.id], current_user.id, user_id)
        THEN Outcome(403, store, current_user.id, {})
        ELSE Outcome(200, store, current_user.id, {user_id})

\* RoleChangeRefused letting through a role equal to the actor's own
RoleChangeRefused_UnlessSame(current_user, user_update) ==
    /\ ~IsAdmin(current_user)
    /\ user_update.role # None
    /\ user_update.role # current_user.role

\* current_user.role != "admin" and user_update.role is not None
RoleChangeRefused(current_user, user_update) ==
    ~IsAdmin(current_user) /\ user_update.role # None

\* the fields update_user assigns before the commit
ApplyUpdate(db_user, user_update, current_user) ==
    [name  |-> IF user_update.name # None THEN user_update.name
               ELSE db_user.name,
     email |-> IF user_update.email # None THEN user_update.email
               ELSE db_user.email,
     hashed_password |->
               IF user_update.password # None
               THEN hash_password(user_update.password)
               ELSE db_user.hashed_password,
     role  |-> IF user_update.role # None /\ IsAdmin(current_user)
               THEN user_update.role
               ELSE db_user.role,
     is_active |-> db_user.is_active]

\* PUT /users/{user_id}
update_user(store, t, authorization, user_id, user_update) ==
    LET current_user == get_current_user(authorization, store, t)
    IN  IF current_user.status # 200
        THEN Outcome(current_user.status, store, 0, {})
        ELSE IF user_id \notin DOMAIN store
        THEN Outcome(404, store, current_user.id, {})
        ELSE IF NotAdminNorSelf(store[current_user.id], current_user.id, user_id)
        THEN Outcome(403, store, current_user.id, {})
        ELSE IF RoleChangeRefused(store[current_user.id], user_update)
        THEN Outcome(403, store, current_user.id, {})
        ELSE LET row == ApplyUpdate(store[user_id], user_update,
                                    store[current_user.id])
                 c == commit(store, [store EXCEPT ![user_id] = row])
             IN  IF c.ok THEN Outcome(200, c.users, current_user.id, {user_id})
                         ELSE Outcome(409, c.users, current_user.id, {})

\* db.delete(db_user); db.commit()
DeleteRow(store, user_id) ==
    [i \in DOMAIN store \ {user_id} |-> store[i]]

\* SelfDelete with the guard left out
SelfDelete_Never(admin_id, user_id) == FALSE

\* admin.id == user_id
SelfDelete(admin_id, user_id) == admin_id = user_id

\* DELETE /users/{user_id}
delete_user(store, t, authorization, user_id) ==
    LET admin == get_current_admin(authorization, store, t)
    IN  IF admin.status # 200 THEN Outcome(admin.status, store, admin.id, {})
        ELSE IF SelfDelete(admin.id, user_id)
        THEN Outcome(400, store, admin.id, {})
        ELSE IF user_id \notin DOMAIN store
        THEN Outcome(404, store, admin.id, {})
        ELSE Outcome(204, DeleteRow(store, user_id), admin.id, {})

\* POST /users/admin/create
create_user_by_admin(store, t, authorization, id, json) ==
    LET admin == get_current_admin(authorization, store, t)
    IN  IF admin.status # 200 THEN Outcome(admin.status, store, admin.id, {})
        ELSE InsertUser(store, id, UserCreate(json), admin.id)

----------------------------------------------------------------------------
(* The requests clients can send *)

\* a token signed with another key, claiming to be the admin of row 1
ForgedTokens ==
    {[payload |-> [user_id |-> 1, email |-> "e1", role |-> "admin",
                   exp |-> ToEpochSeconds(
                               2 * Minutes(ACCESS_TOKEN_EXPIRE_MINUTES))],
      key |-> "attacker-key"]}

Tokens == issued \cup ForgedTokens

\* well-formed Authorization headers
BearerHeaders == {<<"Bearer", tk>> : tk \in Tokens}

\* all header shapes: also no header, another spelling of the scheme, a
\* wrong scheme, and a header of three parts
Headers ==
    BearerHeaders \cup {<<>>}
                  \cup {<<"BEARER", tk>> : tk \in issued}
                  \cup {<<"Token", tk>> : tk \in issued}
                  \cup {<<"Bearer", tk, tk>> : tk \in issued}

UserIds == 1 .. MaxId

LoginRequest == [email : Emails, password : Passwords]
CreateJson == [name : Names, email : Emails, password : Passwords,
               role : Roles \cup {None}]
UserUpdate == [name : Names \cup {None}, email : Emails \cup {None},
               password : Passwords \cup {None}, role : Roles \cup {None}]

----------------------------------------------------------------------------
(* The state machine of the service, at one instant: every token held   *)
(* is within its lifetime.  The clock moves in SpecToken below.            *)

\* The table outlives the process (database.py): at start it is empty or
\* already holds an administrator provisioned outside the API.
SeededAdmin == User("n1", "e1", hash_password("p1"), "admin")

NoCall == [op |-> "none", at |-> 0, delta |-> NoDelta, token |-> NoToken,
           result |-> NoPayload]

Init ==
    /\ \/ users = <<>> /\ nextId = 1
       \/ users = (1 :> SeededAdmin) /\ nextId = 2
    /\ now = 0
    /\ issued = {}
    /\ codec = NoCall

Login ==
    \E login_request \in LoginRequest :
        LET r == login(users, now, login_request)
            held == IF r.status = 200 THEN issued \cup {r.token} ELSE issued
        IN  /\ Cardinality(held) <= MaxTokens
            /\ issued' = held
            /\ UNCHANGED <<users, nextId, now, codec>>

\* the id sequence advances whether or not the insert is committed
CreateUser ==
    \E json \in CreateJson :
        LET r == create_user(users, nextId, json)
        IN  /\ nextId <= MaxId
            /\ users' = r.users
            /\ nextId' = nextId + 1
            /\ UNCHANGED <<now, issued, codec>>

GetMyProfile ==
    \E authorization \in Headers :
        LET r == get_my_profile(users, now, authorization)
        IN  /\ users' = r.users
            /\ UNCHANGED <<nextId, now, issued, codec>>

ReadUsers ==
    \E authorization \in Headers :
        LET r == read_users(users, now, authorization)
        IN  /\ users' = r.users
            /\ UNCHANGED <<nextId, now, issued, codec>>

ReadUser ==
    \E authorization \in Headers, user_id \in UserIds :
        LET r == read_user(users, now, authorization, user_id)
        IN  /\ users' = r.users
            /\ UNCHANGED <<nextId, now, issued, codec>>

UpdateUser ==
    \E authorization \in BearerHeaders, user_id \in UserIds,
       user_update \in UserUpdate :
        LET r == update_user(users, now, authorization, user_id, user_update)
        IN  /\ users' = r.users
            /\ UNCHANGED <<nextId, now, issued, codec>>

DeleteUser ==
    \E authorization \in Headers, user_id \in UserIds :
        LET r == delete_user(users, now, authorization, user_id)
        IN  /\ users' = r.users
            /\ UNCHANGED <<nextId, now, issued, codec>>

CreateUserByAdmin ==
    \E authorization \in Headers, json \in CreateJson :
        LET r == create_user_by_admin(users, now, authorization, nextId, json)
        IN  /\ nextId <= MaxId
            /\ users' = r.users
            /\ nextId' = IF r.status \in {201, 409} THEN nextId + 1 ELSE nextId
            /\ UNCHANGED <<now, issued, codec>>

\* the is_active column is written outside the API only
DbDeactivate ==
    \E id \in DOMAIN users :
        /\ users[id].is_active
        /\ users' = [users EXCEPT ![id].is_active = FALSE]
        /\ UNCHANGED <<nextId, now, issued, codec>>

Next ==
    \/ Login
    \/ CreateUser
    \/ GetMyProfile
    \/ ReadUsers
    \/ ReadUser
    \/ UpdateUser
    \/ DeleteUser
    \/ CreateUserByAdmin
    \/ DbDeactivate

Spec == Init /\ [][Next]_vars

----------------------------------------------------------------------------
(* Vocabulary of the properties, stated on the request and the table      *)
(* without the resolver's own operators                                   *)

\* a header of the form "Bearer <token>", in either spelling of the scheme
WellFormed(a) == Len(a) = 2 /\ a[1] \in {"Bearer", "BEARER"}

\* a correctly signed token that has not expired at the current second
ValidToken(a) ==
    /\ WellFormed(a)
    /\ a[2].key = SECRET_KEY
    /\ a[2].payload.exp * 1000 > now - 1000

TokenId(a) == a[2].payload.user_id
TokenRole(a) == a[2].payload.role

\* the account exists and is active
Live(id) == id \in DOMAIN users /\ users[id].is_active

\* the request resolves to the account TokenId(a)
Authenticated(a) == ValidToken(a) /\ Live(TokenId(a))

StoredRole(a) == users[TokenId(a)].role

\* the request was answered `status` and neither wrote nor returned a row
Refused(r, status) ==
    r.status = status /\ r.users = users /\ r.out = {}

----------------------------------------------------------------------------
(* C1 *)

\* C1: a request carrying a correctly signed, unexpired token resolves to
\* an account only if the account of the token's user_id exists and is
\* active, and then to that account; if the account was deleted or is
\* inactive, every authenticated handler answers 401 without reading or
\* writing a row.
C1_ResolvesOnlyLiveAccounts ==
    \A a \in Headers :
        ValidToken(a) =>
            LET cu == get_current_user(a, users, now)
            IN  /\ cu.status = 200 => Live(TokenId(a)) /\ cu.id = TokenId(a)
                /\ ~Live(TokenId(a)) =>
                    /\ cu.status = 401
                    /\ Refused(get_my_profile(users, now, a), 401)
                    /\ Refused(read_users(users, now, a), 401)
                    /\ \A id \in UserIds :
                        /\ Refused(read_user(users, now, a, id), 401)
                        /\ Refused(delete_user(users, now, a, id), 401)
                        /\ \A u \in UserUpdate :
                            Refused(update_user(users, now, a, id, u), 401)
                    /\ \A json \in CreateJson :
                        Refused(create_user_by_admin(users, now, a, nextId,
                                                     json), 401)

\* two unexpired tokens are held, one of a deleted account and one of an
\* account set inactive, and both are answered 401
C1_Witness ==
    \E a, b \in Headers :
        /\ ValidToken(a) /\ TokenId(a) \notin DOMAIN users
        /\ ValidToken(b) /\ TokenId(b) \in DOMAIN users
        /\ ~users[TokenId(b)].is_active
        /\ get_my_profile(users, now, a).status = 401
        /\ get_my_profile(users, now, b).status = 401

----------------------------------------------------------------------------
(* C2 *)

\* the answer is the refusal of get_current_admin or of the owner check
Denied(r) == Refused(r, 403)

\* C2: every admin-only decision follows the role stored for the actor
\* when the request is resolved, whatever role the token carries: with
\* stored role admin none of the admin-only actions is answered 403, with
\* any other stored role each of them is answered 403.
C2_RoleFromStore ==
    \A a \in Headers :
        Authenticated(a) =>
            LET admin == StoredRole(a) = "admin"
                me == TokenId(a)
            IN  /\ Denied(read_users(users, now, a)) <=> ~admin
                /\ read_users(users, now, a).status = 200 <=> admin
                /\ \A id \in UserIds :
                    Denied(delete_user(users, now, a, id)) <=> ~admin
                /\ \A json \in CreateJson :
                    Denied(create_user_by_admin(users, now, a, nextId, json))
                        <=> ~admin
                /\ \A id \in DOMAIN users :
                    /\ id # me =>
                        (Denied(read_user(users, now, a, id)) <=> ~admin)
                    /\ \A u \in UserUpdate :
                        (id # me \/ u.role # None) =>
                            (Denied(update_user(users, now, a, id, u))
                                <=> ~admin)

\* a token issued with role user belongs to an account that is now admin
\* and lists all accounts; a token issued with role admin belongs to an
\* account that is now user and is refused
C2_Witness ==
    \E a, b \in Headers :
        /\ Authenticated(a) /\ TokenRole(a) = "user" /\ StoredRole(a) = "admin"
        /\ read_users(users, now, a).status = 200
        /\ Authenticated(b) /\ TokenRole(b) = "admin" /\ StoredRole(b) = "user"
        /\ read_users(users, now, b).status = 403

----------------------------------------------------------------------------
(* C3 *)

NoAdmin(store) == \A i \in DOMAIN store : store[i].role # "admin"

\* an update_user request of an actor whose stored role is not admin
\* leaves every account in the table with the role it has
NonAdminUpdateKeepsRoles ==
    \A a \in Headers :
        (Authenticated(a) /\ StoredRole(a) # "admin") =>
            \A id \in UserIds, u \in UserUpdate :
                LET r == update_user(users, now, a, id, u)
                IN  \A i \in DOMAIN users :
                        i \in DOMAIN r.users
                        /\ r.users[i].role = users[i].role

\* a step that changes the role of an existing account is an update_user
\* request answered 200 whose actor has the stored role admin and whose body
\* names the new role, and no step leads from a table without an admin to a
\* table with one
RoleStepsByAdmin ==
    [][ /\ \A id \in DOMAIN users \cap DOMAIN users' :
            users'[id].role # users[id].role =>
                \E a \in Headers :
                    /\ Authenticated(a) /\ StoredRole(a) = "admin"
                    /\ \E u \in UserUpdate :
                        /\ u.role = users'[id].role
                        /\ LET r == update_user(users, now, a, id, u)
                           IN  r.status = 200 /\ r.users = users'
        /\ NoAdmin(users) => NoAdmin(users')
      ]_vars

\* C3: the role of an existing account changes only in a step that is an
\* update_user request answered 200 whose actor has the stored role admin;
\* an update_user request of any other actor leaves every role as it is;
\* from a table without an admin no step leads to a table with one.
C3_RoleChangesOnlyByAdmin == []NonAdminUpdateKeepsRoles /\ RoleStepsByAdmin

\* an account created through the API, hence with role user, is now admin
C3_Witness ==
    \E id \in DOMAIN users : id >= 2 /\ users[id].role = "admin"

----------------------------------------------------------------------------
(* C4 *)

\* C4: an update_user request of an authenticated actor whose stored role
\* is not admin and whose body has a role field is answered 403 for every
\* existing target and every role value, and nothing is written.
C4_NonAdminRoleFieldForbidden ==
    \A a \in Headers :
        (Authenticated(a) /\ StoredRole(a) # "admin") =>
            \A id \in DOMAIN users, u \in UserUpdate :
                u.role # None =>
                    Refused(update_user(users, now, a, id, u), 403)

\* a user asks to set its own role to the role it has, with a new name,
\* another email and a new password in the same body, and is answered 403;
\* another account exists and is refused as a target too
C4_Witness ==
    \E a \in Headers, u \in UserUpdate :
        /\ Authenticated(a) /\ StoredRole(a) = "user"
        /\ u.role = "user"
        /\ u.name # None /\ u.name # users[TokenId(a)].name
        /\ u.email # None /\ u.email # users[TokenId(a)].email
        /\ u.password # None
        /\ hash_password(u.password) # users[TokenId(a)].hashed_password
        /\ update_user(users, now, a, TokenId(a), u).status = 403
        /\ \E id \in DOMAIN users :
            id # TokenId(a) /\ update_user(users, now, a, id, u).status = 403

----------------------------------------------------------------------------
(* C5 *)

Without(store, id) == [i \in DOMAIN store \ {id} |-> store[i]]

\* C5: delete_user removes the target exactly when the actor's stored role
\* is admin and the target is an existing account other than the actor; a
\* request naming the actor's own id is answered 400 or 403 and a request
\* of a non-admin 403, both removing nothing; and no step removes an
\* account except such a request of another account.
C5_DeleteOnlyByOtherAdmin ==
    /\ [](\A a \in Headers, id \in UserIds :
            LET r == delete_user(users, now, a, id)
                allowed == /\ Authenticated(a) /\ StoredRole(a) = "admin"
                           /\ TokenId(a) # id /\ id \in DOMAIN users
            IN  /\ allowed => r.status = 204 /\ r.users = Without(users, id)
                /\ ~allowed => r.users = users
                /\ (Authenticated(a) /\ TokenId(a) = id) =>
                        r.status \in {400, 403}
                /\ (Authenticated(a) /\ StoredRole(a) # "admin") =>
                        Refused(r, 403))
    /\ [][ \A id \in DOMAIN users \ DOMAIN users' :
                \E a \in Headers :
                    /\ Authenticated(a) /\ StoredRole(a) = "admin"
                    /\ TokenId(a) # id
                    /\ users' = Without(users, id)
         ]_vars

\* the account of a held token has been deleted, and the admin who is
\* still there is answered 400 when naming itself
C5_Witness ==
    \E a, b \in Headers :
        /\ ValidToken(a) /\ TokenId(a) \notin DOMAIN users
        /\ Authenticated(b) /\ StoredRole(b) = "admin"
        /\ delete_user(users, now, b, TokenId(b)).status = 400
        /\ TokenId(b) \in DOMAIN delete_user(users, now, b, TokenId(b)).users

----------------------------------------------------------------------------
(* C6 *)

\* the table r.users is users with one more row, id, of role user and active
InsertedAsUser(r, id) ==
    /\ DOMAIN r.users = DOMAIN users \cup {id}
    /\ \A i \in DOMAIN users : r.users[i] = users[i]
    /\ r.users[id].role = "user" /\ r.users[id].is_active

EmailTaken(email) == \E i \in DOMAIN users : users[i].email = email

----------------------------------------------------------------------------
(* C7 *)

\* the row of id after the body u is applied to its name, email and
\* credential
Changed(row, u) ==
    [row EXCEPT
        !.name  = IF u.name # None THEN u.name ELSE @,
        !.email = IF u.email # None THEN u.email ELSE @,
        !.hashed_password =
            IF u.password # None THEN <<"$2b$", u.password>> ELSE @]

\* update_user answered 200 and the target holds the body's name, email and
\* credential, every other row being as before
Applied(r, id, u) ==
    /\ r.status = 200
    /\ DOMAIN r.users = DOMAIN users
    /\ \A i \in DOMAIN users \ {id} : r.users[i] = users[i]
    /\ [r.users[id] EXCEPT !.role = users[id].role] = Changed(users[id], u)

\* the email the target would get is the email of another account
Collides(id, u) ==
    u.email # None /\ \E j \in DOMAIN users \ {id} : users[j].email = u.email

\* the statement of C7 as written: for an existing target, read_user
\* returns it and update_user applies the changes if and only if the actor
\* is the target or has the stored role admin, both answering 403
\* otherwise; read_users succeeds only for an admin.
C7_AsWritten ==
    \A a \in Headers :
        Authenticated(a) =>
            /\ read_users(users, now, a).status = 200
                    => StoredRole(a) = "admin"
            /\ \A id \in DOMAIN users :
                LET may == TokenId(a) = id \/ StoredRole(a) = "admin"
                    rd == read_user(users, now, a, id)
                IN  /\ (rd.status = 200 /\ rd.out = {id}) <=> may
                    /\ ~may => Refused(rd, 403)
                    /\ \A u \in UserUpdate :
                        LET up == update_user(users, now, a, id, u)
                        IN  /\ Applied(up, id, u) <=> may
                            /\ ~may => Refused(up, 403)

\* C7 (amended): as above, except that update_user by the target itself or
\* an admin applies the changes only when the body of a non-admin has no
\* role field (otherwise 403) and the resulting email is not the email of
\* another account (otherwise 409); in both cases nothing is written.
C7_OwnerOrAdmin ==
    \A a \in Headers :
        Authenticated(a) =>
            /\ read_users(users, now, a).status = 200
                    <=> StoredRole(a) = "admin"
            /\ \A id \in DOMAIN users :
                LET may == TokenId(a) = id \/ StoredRole(a) = "admin"
                    rd == read_user(users, now, a, id)
                IN  /\ (rd.status = 200 /\ rd.out = {id}) <=> may
                    /\ ~may => Refused(rd, 403)
                    /\ \A u \in UserUpdate :
                        LET up == update_user(users, now, a, id, u)
                        IN  IF ~may THEN Refused(up, 403)
                            ELSE IF StoredRole(a) # "admin" /\ u.role # None
                            THEN Refused(up, 403)
                            ELSE IF Collides(id, u) THEN Refused(up, 409)
                            ELSE Applied(up, id, u)

\* a user and another account: the user reads and renames itself, is
\* refused on the other account, and an admin may rename the user
C7_Witness ==
    \E a, b \in Headers, u \in UserUpdate :
        /\ Authenticated(a) /\ StoredRole(a) = "user"
        /\ Authenticated(b) /\ StoredRole(b) = "admin"
        /\ u.role = None /\ u.email = None /\ u.password = None
        /\ u.name # None /\ u.name # users[TokenId(a)].name
        /\ read_user(users, now, a, TokenId(a)).status = 200
        /\ read_user(users, now, a, TokenId(b)).status = 403
        /\ update_user(users, now, a, TokenId(b), u).status = 403
        /\ update_user(users, now, a, TokenId(a), u)
               .users[TokenId(a)].name = u.name
        /\ update_user(users, now, b, TokenId(a), u)
               .users[TokenId(a)].name = u.name

----------------------------------------------------------------------------
(* C8 *)

\* the caller passes the checks that precede the write of update_user
Admitted(a, id, u) ==
    /\ Authenticated(a)
    /\ StoredRole(a) = "admin" \/ (TokenId(a) = id /\ u.role = None)

\* C8: no two accounts have the same email.  A request whose resulting
\* email is the email of another account leaves the table exactly as it
\* was, with no row inserted and no field of the target written, and is
\* answered 409 whenever the request reaches the write: create_user
\* always, create_user_by_admin for an admin, update_user for the target
\* itself or an admin.
C8_EmailUnique ==
    /\ \A i, j \in DOMAIN users : i # j => users[i].email # users[j].email
    /\ \A json \in CreateJson :
        EmailTaken(json.email) =>
            /\ Refused(create_user(users, nextId, json), 409)
            /\ \A a \in Headers :
                LET r == create_user_by_admin(users, now, a, nextId, json)
                IN  /\ r.users = users
                    /\ (Authenticated(a) /\ StoredRole(a) = "admin")
                            => Refused(r, 409)
    /\ \A id \in DOMAIN users, u \in UserUpdate :
        Collides(id, u) =>
            \A a \in Headers :
                LET r == update_user(users, now, a, id, u)
                IN  /\ r.users = users
                    /\ Admitted(a, id, u) => Refused(r, 409)

\* two accounts; an admin asks to give one the email of the other together
\* with a new name, password and role, and is answered 409
C8_Witness ==
    \E a \in Headers, id \in DOMAIN users, u \in UserUpdate :
        /\ Authenticated(a) /\ StoredRole(a) = "admin"
        /\ Collides(id, u)
        /\ u.name # None /\ u.name # users[id].name
        /\ u.password # None
        /\ u.role # None /\ u.role # users[id].role
        /\ update_user(users, now, a, id, u).status = 409

----------------------------------------------------------------------------
(* C9 *)

\* the statement of C9 as written: an authenticated request naming an id
\* that is not in the table is answered 404 by read_user, update_user and
\* delete_user, whoever the actor is.
C9_AsWritten ==
    \A a \in Headers, id \in UserIds \ DOMAIN users :
        Authenticated(a) =>
            /\ Refused(read_user(users, now, a, id), 404)
            /\ \A u \in UserUpdate :
                Refused(update_user(users, now, a, id, u), 404)
            /\ Refused(delete_user(users, now, a, id), 404)

\* C9 (amended): read_user and update_user answer 404 for an id that is
\* not in the table, whatever the actor's role and the body; delete_user
\* answers 404 for it only to an admin, and 403 to any other actor.
C9_NotFound ==
    \A a \in Headers, id \in UserIds \ DOMAIN users :
        Authenticated(a) =>
            /\ Refused(read_user(users, now, a, id), 404)
            /\ \A u \in UserUpdate :
                Refused(update_user(users, now, a, id, u), 404)
            /\ IF StoredRole(a) = "admin"
               THEN Refused(delete_user(users, now, a, id), 404)
               ELSE Refused(delete_user(users, now, a, id), 403)

\* a user names an id that is not in the table: read_user and update_user
\* answer 404 and delete_user 403
C9_Witness ==
    \E a \in Headers, id \in UserIds \ DOMAIN users, u \in UserUpdate :
        /\ Authenticated(a) /\ StoredRole(a) = "user"
        /\ u.role # None
        /\ read_user(users, now, a, id).status = 404
        /\ update_user(users, now, a, id, u).status = 404
        /\ delete_user(users, now, a, id).status = 403

----------------------------------------------------------------------------
(* C11 *)

\* the two roles the service knows
RoleEnum == {"user", "admin"}

\* C11: in every reachable state the stored role of every account is user
\* or admin, whatever role strings the request bodies have carried.
C11_StoredRoleIsUserOrAdmin ==
    \A i \in DOMAIN users : users[i].role \in RoleEnum

----------------------------------------------------------------------------
(* The token codec on its own: create_access_token and verify_token       *)
(* called with chosen lifetimes at chosen instants                        *)

\* the clock starts at a whole second and advances by half seconds
StartMs == 10 * 1000
HalfSecond == 1000 \div 2

\* lifetimes: none given, negative, zero and positive ones
Deltas ==
    {NoDelta} \cup {Delta(ms) : ms \in {0 - 1000, 0 - 500, 0, 500, 1000,
                                        Minutes(1)}}

InitToken ==
    /\ users = <<>>
    /\ nextId = 1
    /\ now = StartMs
    /\ issued = {}
    /\ codec = NoCall

Issue ==
    \E user_id \in UserIds, email \in Emails, role \in Roles,
       expires_delta \in Deltas :
        LET token == create_access_token(user_id, email, role,
                                         expires_delta, now)
        IN  /\ issued' = {token}
            /\ codec' = [op |-> "issue", at |-> now,
                         delta |-> expires_delta, token |-> token,
                         result |-> NoPayload]
            /\ UNCHANGED <<users, nextId, now>>

Verify ==
    \E token \in Tokens :
        /\ codec' = [op |-> "verify", at |-> now, delta |-> NoDelta,
                     token |-> token, result |-> verify_token(token, now)]
        /\ UNCHANGED <<users, nextId, now, issued>>

Advance ==
    /\ now < StartMs + MaxHalfSeconds * HalfSecond
    /\ now' = now + HalfSecond
    /\ UNCHANGED <<users, nextId, issued, codec>>

NextToken ==
    \/ Issue
    \/ Verify
    \/ Advance

SpecToken == InitToken /\ [][NextToken]_vars

----------------------------------------------------------------------------
(* C10 *)

\* the whole second of an instant given in milliseconds
Second(ms) == CHOOSE n \in 0 .. ms : n * 1000 <= ms /\ ms < (n + 1) * 1000

\* C10: a token made at `at` with a lifetime given has exp = at + lifetime
\* in whole seconds, for a positive, zero or negative lifetime, and 60
\* minutes are used only when none is given; a token made with a lifetime
\* of -1 second is invalid at once; verify_token returns the invalid marker
\* when exp is a second before the current one and the claim unchanged when
\* the token is correctly signed and exp is a later second.
C10_ExpiryIsNowPlusTtl ==
    /\ codec.op = "issue" =>
        /\ codec.token.payload.exp =
              IF codec.delta # NoDelta
              THEN Second(codec.at + codec.delta[1])
              ELSE Second(codec.at + 60 * 60 * 1000)
        /\ codec.delta = Delta(0 - 1000) =>
              verify_token(codec.token, codec.at) = NoPayload
    /\ codec.op = "verify" =>
        /\ codec.token.payload.exp < Second(codec.at) =>
              codec.result = NoPayload
        /\ (codec.token.key = SECRET_KEY
            /\ codec.token.payload.exp > Second(codec.at)) =>
              codec.result = codec.token.payload

====
